---- MODULE Spec2Model ----
(***************************************************************************)
(* Model of the PDF reader service (src/server.py) and of the invoice      *)
(* analyser that drives it (src/app.py).                                   *)
(*                                                                         *)
(* Text is a sequence of tokens.  A token stands for one lexical unit of   *)
(* the text (a label phrase, an amount, a newline, a page marker); tokens  *)
(* on one line are separated by single blanks.                             *)
(***************************************************************************)
EXTENDS Integers, Sequences, FiniteSets, TLC

VARIABLES
    \* ---- extract_text_from_pdf (src/server.py) ----
    epc,              \* position inside extract_text_from_pdf
    doc,              \* the document found at file_path
    handles,          \* number of open file handles
    acquired,         \* number of handles the current call has acquired
    num_pages,        \* local num_pages
    page_num,         \* pages the loop has gone through
    extracted_pages,  \* local extracted_pages
    text_content,     \* local text_content
    pagesRead,        \* accesses to pdf_reader.pages made by the current call
    result,           \* the dictionary the call returned
    \* ---- "Process All Invoices" (src/app.py, main) ----
    bpc,              \* position inside the button handler
    files,            \* st.session_state['pdf_files']
    idx,              \* files the loop has gone through
    all_data,         \* local all_data
    reports,          \* st.warning / st.error calls of the current run
    parsedFiles,      \* positions on which parse_invoice_text was called
    invoice_data,     \* st.session_state['invoice_data']
    runs,             \* all_data of the runs that have ended, oldest first
    \* ---- parse_invoice_text (src/app.py) ----
    fpc,              \* position inside parse_invoice_text
    text,             \* argument text
    rule,             \* the rule about to be applied
    data              \* local data

extractVars == <<epc, doc, handles, acquired, num_pages, page_num,
                 extracted_pages, text_content, pagesRead, result>>
batchVars == <<bpc, files, idx, all_data, reports, parsedFiles, invoice_data, runs>>
fieldVars == <<fpc, text, rule, data>>
vars == <<extractVars, batchVars, fieldVars>>

----------------------------------------------------------------------------
(* Bounds *)

MaxPages == 3
MaxFiles == 3
MaxMissing == 2
MaxPhrases == 4
MaxRuns == 2

----------------------------------------------------------------------------
(* Tokens *)

Tok(k, v) == [k |-> k, v |-> v]
NL == Tok("NL", 0)
Word == Tok("Word", 0)
\* f"--- Page {page_num} ---"
Marker(n) == Tok("Marker", n)
\* "[Error extracting text from this page]"
Placeholder == Tok("PageError", 0)

IsSpace(t) == t.k = "NL"

RECURSIVE LStrip(_)
LStrip(s) == IF s # <<>> /\ IsSpace(Head(s)) THEN LStrip(Tail(s)) ELSE s

RECURSIVE RStrip(_)
RStrip(s) ==
    IF s # <<>> /\ IsSpace(s[Len(s)]) THEN RStrip(SubSeq(s, 1, Len(s) - 1)) ELSE s

\* str.strip()
Strip(s) == RStrip(LStrip(s))

SeqsUpTo(S, n) == UNION {[1..k -> S] : k \in 0..n}

----------------------------------------------------------------------------
(* Documents: what open(), PyPDF2.PdfReader and page.extract_text() do     *)

\* page.extract_text(): raises, or returns a string (possibly empty)
PageTexts == {<<>>, <<NL>>, <<Word>>}
Pages == {[fault |-> TRUE, text |-> <<>>]} \cup
         {[fault |-> FALSE, text |-> t] : t \in PageTexts}

OpenFaults == {"none", "FileNotFoundError", "PermissionError", "Exception"}
ReaderFaults == {"none", "PdfReadError", "Exception"}
InfoFaults == {"none", "PdfReadError"}

AllDocs(pageSeqs) ==
    [openFault : OpenFaults, readerFault : ReaderFaults, encrypted : BOOLEAN,
     infoFault : InfoFaults, pages : pageSeqs]

\* A stage that fails hides everything behind it: of the documents that differ
\* only behind their first failing stage, one is kept.
Canonical(d) ==
    /\ d.openFault # "none" =>
          d.readerFault = "none" /\ ~d.encrypted /\ d.infoFault = "none" /\ d.pages = <<>>
    /\ d.readerFault # "none" =>
          ~d.encrypted /\ d.infoFault = "none" /\ d.pages = <<>>
    /\ d.encrypted => d.infoFault = "none"

ExtractDocs == {d \in AllDocs(SeqsUpTo(Pages, MaxPages)) : Canonical(d)}

NoDoc == [openFault |-> "none", readerFault |-> "none", encrypted |-> FALSE,
          infoFault |-> "none", pages |-> <<>>]

----------------------------------------------------------------------------
(* extract_text_from_pdf *)

NoResult == [kind |-> "none", error |-> "", text |-> <<>>,
             page_count |-> 0, pages_extracted |-> 0]

create_error_response(error) ==
    [kind |-> "failure", error |-> error, text |-> <<>>,
     page_count |-> 0, pages_extracted |-> 0]

Success(t, n, e) ==
    [kind |-> "success", error |-> "", text |-> t,
     page_count |-> n, pages_extracted |-> e]

OuterExcept_Narrow(e) ==
    IF e = "FileNotFoundError" THEN create_error_response("FILE_NOT_FOUND")
    ELSE IF e = "PermissionError" THEN create_error_response("PERMISSION_DENIED")
    ELSE [kind |-> "raised", error |-> e, text |-> <<>>,
          page_count |-> 0, pages_extracted |-> 0]

\* the except clauses of the outer try
OuterExcept(e) ==
    IF e = "FileNotFoundError" THEN create_error_response("FILE_NOT_FOUND")
    ELSE IF e = "PermissionError" THEN create_error_response("PERMISSION_DENIED")
    ELSE create_error_response("UNEXPECTED_ERROR")

\* the except clauses around PyPDF2.PdfReader(pdf_file)
ReaderExcept(e) ==
    IF e = "PdfReadError" THEN create_error_response("PDF_READ_ERROR")
    ELSE create_error_response("UNKNOWN_PDF_ERROR")

\* leaving the with block closes the handle
ExitScope_Leak(h) == h
ExitScope(h) == h - 1

IsEncrypted_Skip(d) == FALSE
\* pdf_reader.is_encrypted
IsEncrypted(d) == d.encrypted

ExtractReset ==
    /\ num_pages' = 0
    /\ page_num' = 0
    /\ extracted_pages' = 0
    /\ text_content' = <<>>
    /\ pagesRead' = 0
    /\ acquired' = 0
    /\ result' = NoResult

\* open(file_path, 'rb')
OpenFile ==
    /\ epc = "open"
    /\ IF doc.openFault # "none"
       THEN /\ result' = OuterExcept(doc.openFault)
            /\ epc' = "returned"
            /\ UNCHANGED <<handles, acquired>>
       ELSE /\ handles' = handles + 1
            /\ acquired' = acquired + 1
            /\ epc' = "reader"
            /\ UNCHANGED result
    /\ UNCHANGED <<doc, num_pages, page_num, extracted_pages, text_content, pagesRead>>
    /\ UNCHANGED <<batchVars, fieldVars>>

\* pdf_reader = PyPDF2.PdfReader(pdf_file)
CreateReader ==
    /\ epc = "reader"
    /\ IF doc.readerFault # "none"
       THEN /\ result' = ReaderExcept(doc.readerFault)
            /\ handles' = ExitScope(handles)
            /\ epc' = "returned"
       ELSE /\ epc' = "encrypted"
            /\ UNCHANGED <<result, handles>>
    /\ UNCHANGED <<doc, acquired, num_pages, page_num, extracted_pages, text_content,
                   pagesRead>>
    /\ UNCHANGED <<batchVars, fieldVars>>

\* if pdf_reader.is_encrypted: return ...
CheckEncrypted ==
    /\ epc = "encrypted"
    /\ IF IsEncrypted(doc)
       THEN /\ result' = create_error_response("PDF_ENCRYPTED")
            /\ handles' = ExitScope(handles)
            /\ epc' = "returned"
       ELSE /\ epc' = "info"
            /\ UNCHANGED <<result, handles>>
    /\ UNCHANGED <<doc, acquired, num_pages, page_num, extracted_pages, text_content,
                   pagesRead>>
    /\ UNCHANGED <<batchVars, fieldVars>>

\* num_pages = len(pdf_reader.pages); metadata = ...; text_content = "";
\* extracted_pages = 0
GetInfo ==
    /\ epc = "info"
    /\ pagesRead' = pagesRead + 1
    /\ IF doc.infoFault # "none"
       THEN /\ result' = OuterExcept(doc.infoFault)
            /\ handles' = ExitScope(handles)
            /\ epc' = "returned"
            /\ UNCHANGED <<num_pages, text_content, extracted_pages, page_num>>
       ELSE /\ num_pages' = Len(doc.pages)
            /\ text_content' = <<>>
            /\ extracted_pages' = 0
            /\ page_num' = 0
            /\ epc' = "pages"
            /\ UNCHANGED <<result, handles>>
    /\ UNCHANGED <<doc, acquired>>
    /\ UNCHANGED <<batchVars, fieldVars>>

PageBlock_ZeroBased(n, page_text) == <<Marker(n - 1), NL>> \o page_text \o <<NL, NL>>
\* f"--- Page {page_num} ---\n{page_text}\n\n"
PageBlock(n, page_text) == <<Marker(n), NL>> \o page_text \o <<NL, NL>>

\* f"--- Page {page_num} ---\n" "[Error extracting text from this page]\n\n"
ErrorBlock(n) == <<Marker(n), NL, Placeholder, NL, NL>>

LoopState(raised, tc, ep) ==
    [raised |-> raised, text_content |-> tc, extracted_pages |-> ep]

ExtractOnePage_Abort(n, p, tc, ep) ==
    IF p.fault THEN LoopState(TRUE, tc, ep)
    ELSE IF p.text # <<>> THEN LoopState(FALSE, tc \o PageBlock(n, p.text), ep + 1)
    ELSE LoopState(FALSE, tc, ep)

ExtractOnePage_CountAll(n, p, tc, ep) ==
    IF p.fault THEN LoopState(FALSE, tc \o ErrorBlock(n), ep + 1)
    ELSE IF p.text # <<>> THEN LoopState(FALSE, tc \o PageBlock(n, p.text), ep + 1)
    ELSE LoopState(FALSE, tc, ep)

\* the body of the page loop: try: page_text = page.extract_text();
\* if page_text: ... except Exception: ...
ExtractOnePage(n, p, tc, ep) ==
    IF p.fault THEN LoopState(FALSE, tc \o ErrorBlock(n), ep)
    ELSE IF p.text # <<>> THEN LoopState(FALSE, tc \o PageBlock(n, p.text), ep + 1)
    ELSE LoopState(FALSE, tc, ep)

\* one iteration of: for page_num, page in enumerate(pdf_reader.pages, 1)
ExtractPage ==
    /\ epc = "pages"
    /\ page_num < Len(doc.pages)
    /\ LET n == page_num + 1
           s == ExtractOnePage(n, doc.pages[n], text_content, extracted_pages)
       IN /\ pagesRead' = pagesRead + 1
          /\ IF s.raised
             THEN /\ result' = OuterExcept("Exception")
                  /\ handles' = ExitScope(handles)
                  /\ epc' = "returned"
                  /\ UNCHANGED <<page_num, text_content, extracted_pages>>
             ELSE /\ page_num' = n
                  /\ text_content' = s.text_content
                  /\ extracted_pages' = s.extracted_pages
                  /\ UNCHANGED <<result, handles, epc>>
    /\ UNCHANGED <<doc, acquired, num_pages>>
    /\ UNCHANGED <<batchVars, fieldVars>>

\* text_content = text_content.strip(); return {"success": True, ...}
Finish ==
    /\ epc = "pages"
    /\ page_num = Len(doc.pages)
    /\ text_content' = Strip(text_content)
    /\ result' = Success(Strip(text_content), num_pages, extracted_pages)
    /\ handles' = ExitScope(handles)
    /\ epc' = "returned"
    /\ UNCHANGED <<doc, acquired, num_pages, page_num, extracted_pages, pagesRead>>
    /\ UNCHANGED <<batchVars, fieldVars>>

\* read_local_pdf: result = extract_text_from_pdf(abs_path)
Call ==
    /\ epc \in {"idle", "returned"}
    /\ \E d \in ExtractDocs : doc' = d
    /\ epc' = "open"
    /\ ExtractReset
    /\ UNCHANGED handles
    /\ UNCHANGED <<batchVars, fieldVars>>

ExtractIdle ==
    /\ epc = "idle"
    /\ doc = NoDoc
    /\ handles = 0
    /\ acquired = 0
    /\ num_pages = 0
    /\ page_num = 0
    /\ extracted_pages = 0
    /\ text_content = <<>>
    /\ pagesRead = 0
    /\ result = NoResult

BatchIdle ==
    /\ bpc = "idle"
    /\ files = <<>>
    /\ idx = 0
    /\ all_data = <<>>
    /\ reports = <<>>
    /\ parsedFiles = <<>>
    /\ invoice_data = <<>>
    /\ runs = <<>>

FieldIdle ==
    /\ fpc = "idle"
    /\ text = <<>>
    /\ rule = 0
    /\ data = <<>>

ExtractSpecInit == ExtractIdle /\ BatchIdle /\ FieldIdle

ExtractNext ==
    \/ Call
    \/ OpenFile
    \/ CreateReader
    \/ CheckEncrypted
    \/ GetInfo
    \/ ExtractPage
    \/ Finish

ExtractSpec == ExtractSpecInit /\ [][ExtractNext]_vars

----------------------------------------------------------------------------
(* Strings the date rule works on, as sequences of characters *)

Digits == <<"0", "1", "2", "3", "4", "5", "6", "7", "8", "9">>
Upper == <<"A", "B", "C", "D", "E", "F", "G", "H", "I", "J", "K", "L", "M",
           "N", "O", "P", "Q", "R", "S", "T", "U", "V", "W", "X", "Y", "Z">>
Lower == <<"a", "b", "c", "d", "e", "f", "g", "h", "i", "j", "k", "l", "m",
           "n", "o", "p", "q", "r", "s", "t", "u", "v", "w", "x", "y", "z">>

Range(f) == {f[i] : i \in DOMAIN f}
Min(S) == CHOOSE x \in S : \A y \in S : x <= y

\* \d, \w and \s
IsDigit(c) == c \in Range(Digits)
IsWordChar(c) == c \in Range(Digits) \cup Range(Upper) \cup Range(Lower) \cup {"_"}
IsBlank(c) == c = " "

DigitVal(c) == (CHOOSE i \in DOMAIN Digits : Digits[i] = c) - 1
ToLower(c) ==
    IF c \in Range(Upper) THEN Lower[CHOOSE i \in DOMAIN Upper : Upper[i] = c] ELSE c

\* closing dates as they stand in invoices
DateStrings == <<
    <<"9", "t", "h", " ", "O", "c", "t", " ", "2", "0", "2", "4">>,
    <<"1", "s", "t", " ", "J", "a", "n", " ", "2", "0", "2", "5">>,
    <<"2", "3", "r", "d", " ", "F", "e", "b", " ", "2", "0", "2", "3">>,
    <<"3", "1", "s", "t", " ", "F", "e", "b", " ", "2", "0", "2", "4">>,
    <<"1", "s", "t", " ", "A", "u", "g", "u", "s", "t", " ", "2", "0", "2", "4">>,
    <<"9", "t", "h", " ", "O", "c", "t", " ", "2", "4">>,
    <<"2", "2", "n", "d", " ", "M", "a", "r", " ", "2", "0", "2", "4">>,
    <<"3", "r", "d", " ", "S", "e", "p", "t", " ", "2", "0", "2", "4">>,
    <<"2", "9", "t", "h", " ", "F", "e", "b", " ", "2", "0", "2", "4">>,
    <<"2", "9", "t", "h", " ", "F", "e", "b", " ", "2", "0", "2", "3">>,
    <<"1", "0", "t", "h", " ", "S", "e", "p", " ", "0", "9", "9", "9">> >>

\* opening dates (day and month) as they stand in invoices
DayMonthStrings == <<
    <<"1", "0", "t", "h", " ", "S", "e", "p">>,
    <<"2", "n", "d", " ", "D", "e", "c">> >>

----------------------------------------------------------------------------
(* Text tokens of an invoice.  Labels carry v = 0; an amount carries its     *)
(* number; a date token carries its index in DateStrings or                  *)
(* DayMonthStrings.                                                          *)

\* a run of digits and dots that float() rejects, such as "1.2.3"
BadNum == -1

Label(k) == Tok(k, 0)
ChargesFor == Label("ChargesFor")       \* "Your energy charges for"
Dash == Label("Dash")                   \* "-"
CostElec == Label("CostElec")           \* "Cost of electricity"
CostGas == Label("CostGas")             \* "Cost of gas"
VAT == Label("VAT")                     \* "VAT"
TotalCharges == Label("TotalCharges")   \* "Total charges"
DirectDebit == Label("DirectDebit")     \* "Direct Debit"
StartBal == Label("StartBal")           \* "Starting balance"
CloseBal == Label("CloseBal")           \* "Closing balance"
TotalUnits == Label("TotalUnits")       \* "Total units"
GasDetail == Label("GasDetail")         \* "Gas in detail"
UnitRate == Label("UnitRate")           \* "Unit rate"
Standing == Label("Standing")           \* "Standing charge"
Registered == Label("Registered")       \* "Registered in England"
InDebit == Label("InDebit")             \* "in debit"
InCredit == Label("InCredit")           \* "in credit"
DayMonth(i) == Tok("DayMonth", i)       \* DayMonthStrings[i]
Date(i) == Tok("Date", i)               \* DateStrings[i]
Gbp(v) == Tok("Gbp", v)                 \* "£<v>"
PlusGbp(v) == Tok("PlusGbp", v)         \* "+£<v>"
Kwh(v) == Tok("Kwh", v)                 \* "<v> kWh"
PKwh(v) == Tok("PKwh", v)               \* "<v>p per kWh"
PDay(v) == Tok("PDay", v)               \* "<v>p a day"

----------------------------------------------------------------------------
(* re.search on token sequences *)

\* the first token after position i that is not white space (\s+, \s*), or 0
NextNonSpace(t, i) ==
    LET S == {j \in (i + 1)..Len(t) : ~IsSpace(t[j])}
    IN IF S = {} THEN 0 ELSE Min(S)

\* <label>\s+<value>: position of the value of the leftmost match, or 0
LabelValue(t, lbl, val) ==
    LET M == {i \in 1..Len(t) :
                /\ t[i].k = lbl
                /\ NextNonSpace(t, i) # 0
                /\ t[NextNonSpace(t, i)].k = val}
    IN IF M = {} THEN 0 ELSE NextNonSpace(t, Min(M))

\* .*? without DOTALL up to a token of kinds: the first such token after
\* position i on the same line, or 0
SameLine(t, i, kinds) ==
    LET S == {j \in (i + 1)..Len(t) :
                /\ t[j].k \in kinds
                /\ \A m \in (i + 1)..(j - 1) : t[m].k # "NL"}
    IN IF S = {} THEN 0 ELSE Min(S)

\* <label>.*?<value>: position of the value of the leftmost match, or 0
LabelSameLine(t, lbl, kinds) ==
    LET M == {i \in 1..Len(t) : t[i].k = lbl /\ SameLine(t, i, kinds) # 0}
    IN IF M = {} THEN 0 ELSE SameLine(t, Min(M), kinds)

\* <label>\s+£<amount>\s+in\s+(debit|credit): position of the amount, or 0
BalanceMatch(t, lbl) ==
    LET Ok(i) == LET j == NextNonSpace(t, i)
                 IN /\ j # 0
                    /\ t[j].k = "Gbp"
                    /\ NextNonSpace(t, j) # 0
                    /\ t[NextNonSpace(t, j)].k \in {"InDebit", "InCredit"}
        M == {i \in 1..Len(t) : t[i].k = lbl /\ Ok(i)}
    IN IF M = {} THEN 0 ELSE NextNonSpace(t, Min(M))

\* the first token of kind k after position i, or 0
FirstAfter(t, i, k) ==
    LET S == {j \in (i + 1)..Len(t) : t[j].k = k}
    IN IF S = {} THEN 0 ELSE Min(S)

\* Gas in detail.*?Total units\s+([\d.]+)\s+kWh with DOTALL: position of the
\* figure of the leftmost match, or 0
GasKwhMatch(t) ==
    LET g == FirstAfter(t, 0, "GasDetail")
        S == {i \in (g + 1)..Len(t) :
                /\ t[i].k = "TotalUnits"
                /\ NextNonSpace(t, i) # 0
                /\ t[NextNonSpace(t, i)].k = "Kwh"}
    IN IF g = 0 \/ S = {} THEN 0 ELSE NextNonSpace(t, Min(S))

GasSection_ToEnd(t) ==
    LET g == FirstAfter(t, 0, "GasDetail")
    IN IF g = 0 THEN <<>> ELSE SubSeq(t, g, Len(t))

\* Gas in detail.*?(?=Registered in England|$) with DOTALL: group(0), or <<>>
\* when the anchor is missing.  $ also matches before a final newline.
GasSection(t) ==
    LET g == FirstAfter(t, 0, "GasDetail")
        r == FirstAfter(t, g, "Registered")
        e == IF r # 0 THEN r - 1
             ELSE IF t[Len(t)].k = "NL" THEN Len(t) - 1 ELSE Len(t)
    IN IF g = 0 THEN <<>> ELSE SubSeq(t, g, e)

----------------------------------------------------------------------------
(* The closing date: the regular expression's group and convert_date *)

WordChars == Range(Digits) \cup Range(Upper) \cup Range(Lower) \cup {"_"}

\* length of the run of characters of class cls that starts at position i
RunLen(c, i, cls) ==
    LET S == {j \in i..Len(c) : c[j] \notin cls}
    IN IF S = {} THEN Len(c) - i + 1 ELSE Min(S) - i

\* (\d+\w+\s+\w+\s+\d{4}) matched at the start of c: the group, or <<>>
DateCapture(c) ==
    LET w1 == RunLen(c, 1, WordChars)
        b1 == RunLen(c, 1 + w1, {" "})
        w2 == RunLen(c, 1 + w1 + b1, WordChars)
        b2 == RunLen(c, 1 + w1 + b1 + w2, {" "})
        y == 1 + w1 + b1 + w2 + b2
    IN IF /\ w1 >= 2 /\ IsDigit(c[1])
          /\ b1 >= 1 /\ w2 >= 1 /\ b2 >= 1
          /\ RunLen(c, y, Range(Digits)) >= 4
       THEN SubSeq(c, 1, y + 3)
       ELSE <<>>

\* str.replace(old, '') for a two-character old
RECURSIVE Remove(_, _)
Remove(c, old) ==
    IF Len(c) < 2 THEN c
    ELSE IF SubSeq(c, 1, 2) = old THEN Remove(SubSeq(c, 3, Len(c)), old)
    ELSE <<Head(c)>> \o Remove(Tail(c), old)

CleanDate_OnlyTh(c) == Remove(c, <<"t", "h">>)
\* date_string.replace('st', '').replace('nd', '').replace('rd', '').replace('th', '')
CleanDate(c) ==
    Remove(Remove(Remove(Remove(c, <<"s", "t">>), <<"n", "d">>), <<"r", "d">>),
           <<"t", "h">>)

MonthAbbr == <<
    <<"j", "a", "n">>, <<"f", "e", "b">>, <<"m", "a", "r">>, <<"a", "p", "r">>,
    <<"m", "a", "y">>, <<"j", "u", "n">>, <<"j", "u", "l">>, <<"a", "u", "g">>,
    <<"s", "e", "p">>, <<"o", "c", "t">>, <<"n", "o", "v">>, <<"d", "e", "c">> >>

IsLeap(y) == (y % 4 = 0 /\ y % 100 # 0) \/ y % 400 = 0
DaysIn(m, y) ==
    IF m = 2 THEN (IF IsLeap(y) THEN 29 ELSE 28)
    ELSE IF m \in {4, 6, 9, 11} THEN 30 ELSE 31

NoDate == [raised |-> TRUE, y |-> 0, m |-> 0, d |-> 0]

\* what follows the day in '%d %b %Y': \s+, a month abbreviation, \s+, four
\* digits, the end of the string; then datetime's own range checks
RestOfDate(c, pos, day) ==
    LET b1 == RunLen(c, pos, {" "})
        mp == pos + b1
        mon == IF mp + 2 <= Len(c)
               THEN <<ToLower(c[mp]), ToLower(c[mp + 1]), ToLower(c[mp + 2])>>
               ELSE <<>>
        b2 == RunLen(c, mp + 3, {" "})
        yp == mp + 3 + b2
    IN IF /\ b1 >= 1
          /\ mon \in Range(MonthAbbr)
          /\ b2 >= 1
          /\ yp + 3 = Len(c)
          /\ \A i \in yp..(yp + 3) : IsDigit(c[i])
       THEN LET m == CHOOSE i \in DOMAIN MonthAbbr : MonthAbbr[i] = mon
                y == 1000 * DigitVal(c[yp]) + 100 * DigitVal(c[yp + 1])
                     + 10 * DigitVal(c[yp + 2]) + DigitVal(c[yp + 3])
            IN IF y >= 1 /\ day <= DaysIn(m, y)
               THEN [raised |-> FALSE, y |-> y, m |-> m, d |-> day]
               ELSE NoDate
       ELSE NoDate

\* datetime.strptime(date_cleaned, '%d %b %Y'); %d is
\* 3[0-1]|[1-2]\d|0[1-9]|[1-9]| [1-9]
Strptime(c) ==
    LET two == IF Len(c) >= 2 /\ IsDigit(c[1]) /\ IsDigit(c[2])
                  /\ 10 * DigitVal(c[1]) + DigitVal(c[2]) \in 1..31
               THEN RestOfDate(c, 3, 10 * DigitVal(c[1]) + DigitVal(c[2]))
               ELSE NoDate
        one == IF Len(c) >= 1 /\ IsDigit(c[1]) /\ DigitVal(c[1]) >= 1
               THEN RestOfDate(c, 2, DigitVal(c[1]))
               ELSE NoDate
        padded == IF Len(c) >= 2 /\ c[1] = " " /\ IsDigit(c[2]) /\ DigitVal(c[2]) >= 1
                  THEN RestOfDate(c, 3, DigitVal(c[2]))
                  ELSE NoDate
    IN IF ~two.raised THEN two
       ELSE IF ~one.raised THEN one
       ELSE padded

RECURSIVE NatChars(_)
NatChars(n) ==
    IF n < 10 THEN <<Digits[n + 1]>>
    ELSE NatChars(n \div 10) \o <<Digits[(n % 10) + 1]>>

Pad2(n) == <<Digits[(n \div 10) + 1], Digits[(n % 10) + 1]>>

\* date_obj.strftime('%Y/%m/%d')
Strftime(dt) == NatChars(dt.y) \o <<"/">> \o Pad2(dt.m) \o <<"/">> \o Pad2(dt.d)

\* convert_date: the string, or raised
convert_date(c) ==
    LET dt == Strptime(CleanDate(c))
    IN IF dt.raised THEN [raised |-> TRUE, val |-> <<>>]
       ELSE [raised |-> FALSE, val |-> Strftime(dt)]

\* group 2 of the period pattern on each date string a text may carry
DateCaptures == [i \in DOMAIN DateStrings |-> DateCapture(DateStrings[i])]

\* Your energy charges for (\d+\w+\s+\w+)\s*-\s*(\d+\w+\s+\w+\s+\d{4}):
\* position of the label of the leftmost match, or 0
PeriodMatch(t) ==
    LET Ok(i) ==
            /\ i + 1 <= Len(t)
            /\ t[i + 1].k = "DayMonth"
            /\ LET d == NextNonSpace(t, i + 1)
               IN /\ d # 0
                  /\ t[d].k = "Dash"
                  /\ NextNonSpace(t, d) # 0
                  /\ t[NextNonSpace(t, d)].k = "Date"
                  /\ DateCaptures[t[NextNonSpace(t, d)].v] # <<>>
        M == {i \in 1..Len(t) : t[i].k = "ChargesFor" /\ Ok(i)}
    IN IF M = {} THEN 0 ELSE Min(M)

----------------------------------------------------------------------------
(* parse_invoice_text *)

TextFields == {"period_start", "period_end"}
NumberFields == {"electricity_cost", "gas_cost", "vat", "total_charges",
                 "direct_debit", "starting_balance", "closing_balance",
                 "electricity_kwh", "gas_kwh", "electricity_unit_rate",
                 "gas_unit_rate", "electricity_standing_charge",
                 "gas_standing_charge"}
Fields == TextFields \cup NumberFields

\* None, and a value
Absent(f) == [set |-> FALSE, val |-> IF f \in TextFields THEN <<>> ELSE 0]
Some(v) == [set |-> TRUE, val |-> v]

\* data = {'period_start': None, ...}
NoData == [f \in Fields |-> Absent(f)]

\* the statements of parse_invoice_text, in order
Rules == <<"period", "electricity_cost", "gas_cost", "vat", "total_charges",
           "direct_debit", "starting_balance", "closing_balance",
           "electricity_kwh", "gas_kwh", "electricity_unit_rate",
           "electricity_standing_charge", "gas_rates">>
NumRules == Len(Rules)

Skipped(d) == [raised |-> FALSE, matched |-> FALSE, data |-> d]
Stored(d) == [raised |-> FALSE, matched |-> TRUE, data |-> d]
Raised(d) == [raised |-> TRUE, matched |-> TRUE, data |-> d]

\* data[f] = float(tok): float() raises ValueError on a malformed number
SetFloat(d, f, tok) ==
    IF tok.v = BadNum THEN Raised(d) ELSE Stored([d EXCEPT ![f] = Some(tok.v)])

\* if m: data[f] = float(m.group(1)), m the match whose figure is at pos
Figure(d, f, t, pos) == IF pos = 0 THEN Skipped(d) ELSE SetFloat(d, f, t[pos])

Signed_Unsigned(amount, word) == amount
\* -amount if m.group(2) == 'debit' else amount
Signed(amount, word) == IF word.k = "InDebit" THEN 0 - amount ELSE amount

\* the balance statements
Balance(d, f, t, pos) ==
    IF pos = 0 THEN Skipped(d)
    ELSE IF t[pos].v = BadNum THEN Raised(d)
    ELSE Stored([d EXCEPT ![f] = Some(Signed(t[pos].v, t[NextNonSpace(t, pos)]))])

\* convert_date(match.group(2)) for the date strings a text may carry
EndDates == [i \in DOMAIN DateStrings |-> convert_date(DateCaptures[i])]

\* the billing period statement
Period(d, t) ==
    LET m == PeriodMatch(t)
        e == NextNonSpace(t, NextNonSpace(t, m + 1))
        conv == EndDates[t[e].v]
    IN IF m = 0 THEN Skipped(d)
       ELSE IF conv.raised
            THEN Raised([d EXCEPT !["period_start"] = Some(DayMonthStrings[t[m + 1].v])])
            ELSE Stored([d EXCEPT !["period_start"] = Some(DayMonthStrings[t[m + 1].v]),
                                  !["period_end"] = Some(conv.val)])

\* the gas rates statement: both searches run on gas_text
GasRates(d, t) ==
    IF FirstAfter(t, 0, "GasDetail") = 0 THEN Skipped(d)
    ELSE LET gas_text == GasSection(t)
             rate == Figure(d, "gas_unit_rate", gas_text,
                            LabelValue(gas_text, "UnitRate", "PKwh"))
             stand == Figure(rate.data, "gas_standing_charge", gas_text,
                             LabelValue(gas_text, "Standing", "PDay"))
         IN IF rate.raised THEN rate
            ELSE IF stand.raised THEN stand
            ELSE [raised |-> FALSE, matched |-> rate.matched \/ stand.matched,
                  data |-> stand.data]

\* statement r of parse_invoice_text on text t with data d
ApplyRule(r, t, d) ==
    CASE Rules[r] = "period" -> Period(d, t)
      [] Rules[r] = "electricity_cost" ->
            Figure(d, "electricity_cost", t, LabelValue(t, "CostElec", "Gbp"))
      [] Rules[r] = "gas_cost" ->
            Figure(d, "gas_cost", t, LabelValue(t, "CostGas", "Gbp"))
      [] Rules[r] = "vat" ->
            Figure(d, "vat", t, LabelSameLine(t, "VAT", {"Gbp", "PlusGbp"}))
      [] Rules[r] = "total_charges" ->
            Figure(d, "total_charges", t, LabelValue(t, "TotalCharges", "Gbp"))
      [] Rules[r] = "direct_debit" ->
            Figure(d, "direct_debit", t, LabelSameLine(t, "DirectDebit", {"PlusGbp"}))
      [] Rules[r] = "starting_balance" ->
            Balance(d, "starting_balance", t, BalanceMatch(t, "StartBal"))
      [] Rules[r] = "closing_balance" ->
            Balance(d, "closing_balance", t, BalanceMatch(t, "CloseBal"))
      [] Rules[r] = "electricity_kwh" ->
            Figure(d, "electricity_kwh", t, LabelValue(t, "TotalUnits", "Kwh"))
      [] Rules[r] = "gas_kwh" ->
            Figure(d, "gas_kwh", t, GasKwhMatch(t))
      [] Rules[r] = "electricity_unit_rate" ->
            Figure(d, "electricity_unit_rate", t, LabelValue(t, "UnitRate", "PKwh"))
      [] Rules[r] = "electricity_standing_charge" ->
            Figure(d, "electricity_standing_charge", t,
                   LabelValue(t, "Standing", "PDay"))
      [] Rules[r] = "gas_rates" -> GasRates(d, t)

AfterRule_ElseReturn(r, matched) == IF matched THEN r + 1 ELSE NumRules + 1
\* every statement is an `if` without else: matched or not, control goes on to
\* the next statement
AfterRule(r, matched) == r + 1

\* the statements from r on; s is the outcome of statement r, computed once
RECURSIVE RunRules(_, _, _)
RunRules(r, t, d) ==
    IF r > NumRules THEN [raised |-> FALSE, data |-> d]
    ELSE CHOOSE out \in {IF s.raised THEN [raised |-> TRUE, data |-> NoData]
                          ELSE RunRules(AfterRule(r, s.matched), t, s.data) :
                             s \in {ApplyRule(r, t, d)}} : TRUE

\* parse_invoice_text(text): the record, or raised (ValueError)
parse_invoice_text(t) == RunRules(1, t, NoData)

----------------------------------------------------------------------------
(* parse_invoice_text, statement by statement *)

\* statement r
Statement(r) ==
    /\ fpc = "running"
    /\ rule = r
    /\ LET s == ApplyRule(r, text, data)
       IN IF s.raised
          THEN /\ fpc' = "raised"
               /\ UNCHANGED <<rule, data>>
          ELSE /\ rule' = AfterRule(r, s.matched)
               /\ data' = s.data
               /\ UNCHANGED fpc
    /\ UNCHANGED text
    /\ UNCHANGED <<extractVars, batchVars>>

BillingPeriod == Statement(1)
ElectricityCost == Statement(2)
GasCost == Statement(3)
Vat == Statement(4)
TotalChargesCost == Statement(5)
DirectDebitAmount == Statement(6)
StartingBalance == Statement(7)
ClosingBalance == Statement(8)
ElectricityConsumption == Statement(9)
GasConsumption == Statement(10)
ElectricityRate == Statement(11)
ElectricityStanding == Statement(12)
GasSectionRates == Statement(13)

\* return data
ReturnData ==
    /\ fpc = "running"
    /\ rule > NumRules
    /\ fpc' = "returned"
    /\ UNCHANGED <<text, rule, data>>
    /\ UNCHANGED <<extractVars, batchVars>>

FieldNext ==
    \/ BillingPeriod
    \/ ElectricityCost
    \/ GasCost
    \/ Vat
    \/ TotalChargesCost
    \/ DirectDebitAmount
    \/ StartingBalance
    \/ ClosingBalance
    \/ ElectricityConsumption
    \/ GasConsumption
    \/ ElectricityRate
    \/ ElectricityStanding
    \/ GasSectionRates
    \/ ReturnData

\* every figure of a text is given its own position as its value, so that a
\* value found in a field tells where in the text it stood
FigureKinds == {"Gbp", "PlusGbp", "Kwh", "PKwh", "PDay"}
Numbered(t) ==
    [i \in 1..Len(t) |-> IF t[i].k \in FigureKinds THEN Tok(t[i].k, i) ELSE t[i]]

RECURSIVE Flatten(_)
Flatten(ss) == IF ss = <<>> THEN <<>> ELSE Head(ss) \o Flatten(Tail(ss))

\* The lines of an invoice, one per statement of parse_invoice_text, in the
\* order of the bills: summary, electricity in detail, gas in detail.
PeriodLines == <<
    <<>>,
    <<ChargesFor, DayMonth(1), Dash, Date(1), NL>>,
    <<ChargesFor, DayMonth(2), Dash, Date(4), NL>> >>
InvoiceLines == <<
    <<CostElec, Gbp(0), NL>>,
    <<CostGas, Gbp(0), NL>>,
    <<VAT, Word, Gbp(0), NL>>,
    <<TotalCharges, Gbp(0), NL>>,
    <<DirectDebit, Word, PlusGbp(0), NL>>,
    <<StartBal, Gbp(0), InDebit, NL>>,
    <<CloseBal, Gbp(0), InCredit, NL>>,
    <<TotalUnits, Kwh(0), NL>>,
    <<UnitRate, PKwh(0), NL>>,
    <<Standing, PDay(0), NL>>,
    <<GasDetail, NL>>,
    <<TotalUnits, Kwh(0), NL>>,
    <<UnitRate, PKwh(0), NL>>,
    <<Standing, PDay(0), NL>> >>

\* the invoice with period line p and the lines of set keep
Invoice(p, keep) ==
    Numbered(PeriodLines[p] \o
             Flatten([i \in DOMAIN InvoiceLines |->
                        IF i \in keep THEN InvoiceLines[i] ELSE <<>>]))

\* invoices that lack at most MaxMissing lines, or hold at most MaxMissing
FieldTexts ==
    {Invoice(p, keep) :
        p \in DOMAIN PeriodLines,
        keep \in {k \in SUBSET DOMAIN InvoiceLines :
                    \/ Cardinality(k) <= MaxMissing
                    \/ Cardinality(k) >= Len(InvoiceLines) - MaxMissing}}

FieldInit(texts) ==
    /\ fpc = "running"
    /\ text \in texts
    /\ rule = 1
    /\ data = NoData

FieldSpecInit == ExtractIdle /\ BatchIdle /\ FieldInit(FieldTexts)
FieldSpec == FieldSpecInit /\ [][FieldNext]_vars

\* Texts made of at most MaxPhrases phrases of the two detail sections.
SectionPhrases == {<<GasDetail>>, <<Registered>>, <<TotalUnits, Kwh(0)>>,
                   <<UnitRate, PKwh(0)>>, <<Standing, PDay(0)>>, <<NL>>}
SectionTexts == {Numbered(Flatten(ps)) : ps \in SeqsUpTo(SectionPhrases, MaxPhrases)}

SectionSpecInit == ExtractIdle /\ BatchIdle /\ FieldInit(SectionTexts)
SectionSpec == SectionSpecInit /\ [][FieldNext]_vars

\* Texts made of at most MaxPhrases balance phrases.
BalancePhrases == {<<StartBal, Gbp(0), InDebit>>, <<StartBal, Gbp(0), InCredit>>,
                   <<CloseBal, Gbp(0), InDebit>>, <<CloseBal, Gbp(0), InCredit>>,
                   <<CloseBal, Gbp(0)>>, <<NL>>}
BalanceTexts == {Numbered(Flatten(ps)) : ps \in SeqsUpTo(BalancePhrases, MaxPhrases)}

BalanceSpecInit == ExtractIdle /\ BatchIdle /\ FieldInit(BalanceTexts)
BalanceSpec == BalanceSpecInit /\ [][FieldNext]_vars

\* Texts of at most MaxPeriodLines billing period lines, with or without a
\* line before them.
MaxPeriodLines == 2
PeriodLine(i, j) == <<ChargesFor, DayMonth(i), Dash, Date(j), NL>>
PeriodTexts ==
    {Numbered(pre \o Flatten(ls)) :
        pre \in {<<>>, <<Word, NL>>},
        ls \in SeqsUpTo({PeriodLine(i, j) : i \in DOMAIN DayMonthStrings,
                                             j \in DOMAIN DateStrings},
                        MaxPeriodLines)}

PeriodSpecInit == ExtractIdle /\ BatchIdle /\ FieldInit(PeriodTexts)
PeriodSpec == PeriodSpecInit /\ [][FieldNext]_vars

----------------------------------------------------------------------------
(* "Process All Invoices": the loop of main over st.session_state['pdf_files'] *)

\* documents of an invoice directory
InvoiceA == <<CostElec, Gbp(5), NL, ChargesFor, DayMonth(1), Dash, Date(1)>>
InvoiceB == <<TotalCharges, Gbp(7), NL, StartBal, Gbp(2), InDebit>>
InvoiceBadDate == <<CostGas, Gbp(3), NL, ChargesFor, DayMonth(2), Dash, Date(4)>>

Readable(pages) == [NoDoc EXCEPT !.pages = pages]
TextPage(t) == [fault |-> FALSE, text |-> t]
FaultPage == [fault |-> TRUE, text |-> <<>>]

BatchDocs == {
    [NoDoc EXCEPT !.openFault = "FileNotFoundError"],
    [NoDoc EXCEPT !.encrypted = TRUE, !.pages = <<TextPage(InvoiceA)>>],
    Readable(<<TextPage(InvoiceA)>>),
    Readable(<<FaultPage, TextPage(InvoiceB)>>),
    Readable(<<TextPage(InvoiceBadDate)>>) }

\* list_pdf_files globs recursively: two paths may end in the same name.
\* Paths are numbered in the order in which the sort by name leaves them.
Paths == 1..MaxFiles
NameOf(path) == (path + 1) \div 2

\* the paths of result['data']['files'], sorted by name
PathSeqs ==
    {p \in SeqsUpTo(Paths, MaxFiles) :
        /\ p # <<>>
        /\ \A i, j \in 1..Len(p) : i < j => p[i] < p[j]}

FileInfo(path, d) == [name |-> NameOf(path), path |-> path, doc |-> d]

\* result['data']['files']: one entry per path; doc is the document that lies
\* at the path
Listings ==
    UNION {{[i \in 1..Len(p) |-> FileInfo(p[i], ds[i])] :
               ds \in [1..Len(p) -> BatchDocs]} : p \in PathSeqs}

\* what the try block may raise
Raisable == {"ConnectionError", "ValueError"}

HandlerCatches_OnlyConnection(e) == e = "ConnectionError"
\* except Exception as e
HandlerCatches(e) == e \in Raisable

IsSuccess_Any(r) == TRUE
\* isinstance(result, dict) and result.get('success')
IsSuccess(r) == r.kind = "success"

\* parsed_data['filename'] = ...; parsed_data['file_path'] = ...
Record(file_info, parsed_data) ==
    [filename |-> file_info.name, file_path |-> file_info.path, fields |-> parsed_data]

\* st.warning(...), st.error(...)
Report(level, file_info) == [level |-> level, name |-> file_info.name]

\* if st.button("Process All Invoices"): files = ...; all_data = []
ProcessAll ==
    /\ bpc = "idle"
    /\ files # <<>>
    /\ bpc' = "running"
    /\ idx' = 0
    /\ all_data' = <<>>
    /\ reports' = <<>>
    /\ parsedFiles' = <<>>
    /\ UNCHANGED <<files, invoice_data, runs>>
    /\ UNCHANGED <<extractVars, fieldVars>>

\* an exception e inside the try block of the loop body
RaiseInLoop(e) ==
    IF HandlerCatches(e)
    THEN /\ reports' = Append(reports, Report("error", files[idx + 1]))
         /\ idx' = idx + 1
         /\ bpc' = "running"
    ELSE /\ bpc' = "aborted"
         /\ UNCHANGED <<reports, idx>>

\* result = asyncio.run(read_pdf_async(file_info['path'])): the request
\* reaches the server, which calls extract_text_from_pdf
SendRequest ==
    /\ bpc = "running"
    /\ idx < Len(files)
    /\ bpc' = "waiting"
    /\ doc' = files[idx + 1].doc
    /\ epc' = "open"
    /\ ExtractReset
    /\ UNCHANGED handles
    /\ UNCHANGED <<files, idx, all_data, reports, parsedFiles, invoice_data, runs>>
    /\ UNCHANGED fieldVars

\* read_pdf_async raises: the server cannot be reached
RequestFails ==
    /\ bpc = "running"
    /\ idx < Len(files)
    /\ RaiseInLoop("ConnectionError")
    /\ UNCHANGED <<files, all_data, parsedFiles, invoice_data, runs>>
    /\ UNCHANGED <<extractVars, fieldVars>>

\* the response is in: the if / elif / else on result, inside the try block
HandleResult ==
    /\ bpc = "waiting"
    /\ epc = "returned"
    /\ epc' = "idle"
    /\ IF IsSuccess(result)
       THEN LET parsed == parse_invoice_text(result.text)
            IN /\ parsedFiles' = Append(parsedFiles, idx + 1)
               /\ IF parsed.raised
                  THEN /\ RaiseInLoop("ValueError")
                       /\ UNCHANGED all_data
                  ELSE /\ all_data' = Append(all_data, Record(files[idx + 1], parsed.data))
                       /\ idx' = idx + 1
                       /\ bpc' = "running"
                       /\ UNCHANGED reports
       ELSE /\ reports' = Append(reports, Report("warning", files[idx + 1]))
            /\ idx' = idx + 1
            /\ bpc' = "running"
            /\ UNCHANGED <<all_data, parsedFiles>>
    /\ UNCHANGED <<files, invoice_data, runs>>
    /\ UNCHANGED <<doc, handles, acquired, num_pages, page_num, extracted_pages,
                   text_content, pagesRead, result>>
    /\ UNCHANGED fieldVars

\* the response carries no content: read_pdf_async returns {}, and the elif
\* branch warns
EmptyResponse ==
    /\ bpc = "waiting"
    /\ epc = "returned"
    /\ epc' = "idle"
    /\ reports' = Append(reports, Report("warning", files[idx + 1]))
    /\ idx' = idx + 1
    /\ bpc' = "running"
    /\ UNCHANGED <<files, all_data, parsedFiles, invoice_data, runs>>
    /\ UNCHANGED <<doc, handles, acquired, num_pages, page_num, extracted_pages,
                   text_content, pagesRead, result>>
    /\ UNCHANGED fieldVars

StoreRecords_Always(stored, records) == records
\* if all_data: st.session_state['invoice_data'] = all_data
StoreRecords(stored, records) == IF records # <<>> THEN records ELSE stored

\* after the loop
FinishRun ==
    /\ bpc = "running"
    /\ idx = Len(files)
    /\ bpc' = "done"
    /\ invoice_data' = StoreRecords(invoice_data, all_data)
    /\ runs' = Append(runs, all_data)
    /\ UNCHANGED <<files, idx, all_data, reports, parsedFiles>>
    /\ UNCHANGED <<extractVars, fieldVars>>

BatchInit ==
    /\ bpc = "idle"
    /\ files \in Listings
    /\ idx = 0
    /\ all_data = <<>>
    /\ reports = <<>>
    /\ parsedFiles = <<>>
    /\ invoice_data = <<>>
    /\ runs = <<>>

BatchSpecInit == ExtractIdle /\ BatchInit /\ FieldIdle

\* the steps of a run, once the button is pressed
RunStep ==
    \/ SendRequest
    \/ RequestFails
    \/ OpenFile
    \/ CreateReader
    \/ CheckEncrypted
    \/ GetInfo
    \/ ExtractPage
    \/ Finish
    \/ EmptyResponse
    \/ HandleResult
    \/ FinishRun

BatchNext == ProcessAll \/ RunStep

BatchSpec == BatchSpecInit /\ [][BatchNext]_vars

\* the script runs to its end once started: every step of a run is taken
FairBatchSpec == BatchSpec /\ WF_vars(RunStep)

----------------------------------------------------------------------------
(* A session: directory scans and runs, one after the other *)

\* listings of the documents at two paths of the same name
SessionPaths == {1, 2}
SessionDocs == {[NoDoc EXCEPT !.encrypted = TRUE, !.pages = <<TextPage(InvoiceA)>>],
                Readable(<<TextPage(InvoiceA)>>),
                Readable(<<FaultPage, TextPage(InvoiceB)>>)}
SessionListings ==
    {l \in Listings :
        \A i \in DOMAIN l : l[i].path \in SessionPaths /\ l[i].doc \in SessionDocs}

\* "Scan Directory for PDFs": if files: st.session_state['pdf_files'] = files;
\* a scan that fails or finds nothing leaves pdf_files as it was
ScanDirectory ==
    /\ bpc \in {"idle", "done"}
    /\ Len(runs) < MaxRuns
    /\ \E l \in SessionListings \cup {<<>>} :
          files' = IF l # <<>> THEN l ELSE files
    /\ bpc' = "idle"
    /\ UNCHANGED <<idx, all_data, reports, parsedFiles, invoice_data, runs>>
    /\ UNCHANGED <<extractVars, fieldVars>>

SessionInit == ExtractIdle /\ BatchIdle /\ FieldIdle
SessionNext == ScanDirectory \/ ProcessAll \/ RunStep
SessionSpec == SessionInit /\ [][SessionNext]_vars

----------------------------------------------------------------------------
(* Properties of extract_text_from_pdf, checked under ExtractSpec *)

Taxonomy == {"FILE_NOT_FOUND", "PERMISSION_DENIED", "PDF_READ_ERROR",
             "PDF_ENCRYPTED", "UNKNOWN_PDF_ERROR", "UNEXPECTED_ERROR"}

\* the document opens and parses
Parses(d) == d.openFault = "none" /\ d.readerFault = "none"
\* the call gets as far as the page loop
ReachesPages(d) == Parses(d) /\ ~d.encrypted /\ d.infoFault = "none"

GoodPage(p) == (~p.fault) /\ p.text # <<>>
GoodPages(d, upto) == {i \in 1..upto : GoodPage(d.pages[i])}
FaultyPages(d) == {i \in 1..Len(d.pages) : d.pages[i].fault}

\* the numbers of the page markers of a text, in text order
RECURSIVE MarkerNums(_)
MarkerNums(s) ==
    IF s = <<>> THEN <<>>
    ELSE IF Head(s).k = "Marker" THEN <<Head(s).v>> \o MarkerNums(Tail(s))
    ELSE MarkerNums(Tail(s))

Ascending(ns) == \A i \in 1..Len(ns) - 1 : ns[i] < ns[i + 1]

BlockAt(s, pos, blk) ==
    /\ pos + Len(blk) - 1 <= Len(s)
    /\ SubSeq(s, pos, pos + Len(blk) - 1) = blk

\* C3: a document that opens and parses as encrypted makes the call return
\* Failure(PDF_ENCRYPTED), and the call never touches pdf_reader.pages (no page
\* count, no page text) for it.
C3_EncryptedBeforePages ==
    (epc # "idle" /\ Parses(doc) /\ doc.encrypted) =>
        /\ pagesRead = 0
        /\ epc = "returned" => result = create_error_response("PDF_ENCRYPTED")

C3_Witness ==
    /\ epc = "returned"
    /\ Parses(doc) /\ doc.encrypted /\ Len(doc.pages) = 2
    /\ result.error = "PDF_ENCRYPTED"
    /\ pagesRead = 0

\* C4: when pages fault during extract_text(), the call still returns Success;
\* page_count counts every page, pages_extracted leaves the faulting pages out,
\* every faulting page has its marker followed by the placeholder, every later
\* page that yields text has its marker and text, and the markers stand in
\* page order.
C4_PageFaultIsLocal ==
    (epc = "returned" /\ ReachesPages(doc) /\ FaultyPages(doc) # {}) =>
        /\ result.kind = "success"
        /\ result.page_count = Len(doc.pages)
        /\ result.pages_extracted = Cardinality(GoodPages(doc, Len(doc.pages)))
        /\ result.pages_extracted <= result.page_count - Cardinality(FaultyPages(doc))
        /\ Ascending(MarkerNums(result.text))
        /\ \A i \in FaultyPages(doc) :
              /\ \E pos \in 1..Len(result.text) :
                    BlockAt(result.text, pos, <<Marker(i), NL, Placeholder>>)
              /\ \A j \in (i + 1)..Len(doc.pages) :
                    GoodPage(doc.pages[j]) =>
                        \E pos \in 1..Len(result.text) :
                            BlockAt(result.text, pos,
                                    RStrip(<<Marker(j), NL>> \o doc.pages[j].text))

C4_Witness ==
    /\ epc = "returned"
    /\ ReachesPages(doc)
    /\ Len(doc.pages) = 3
    /\ FaultyPages(doc) = {2}
    /\ doc.pages[3].text = <<Word>>
    /\ result.kind = "success"
    /\ result.pages_extracted = 2

NoPageFaults(d) == FaultyPages(d) = {}
NoEmptyPages(d) == \A i \in 1..Len(d.pages) : d.pages[i].text # <<>>

\* C5 as stated: with page_count = N and no page fault (pages with empty text
\* included), pages_extracted = N and the text has the markers 1..N in order.
C5_Original ==
    (epc = "returned" /\ result.kind = "success" /\ NoPageFaults(doc)) =>
        /\ result.pages_extracted = result.page_count
        /\ MarkerNums(result.text) = [i \in 1..result.page_count |-> i]

\* C5 as amended: with page_count = N, no page fault and no page whose text is
\* empty, pages_extracted = N and the text has the markers 1..N in order.
C5_AllPagesMarked ==
    (epc = "returned" /\ result.kind = "success"
        /\ NoPageFaults(doc) /\ NoEmptyPages(doc)) =>
        /\ result.page_count = Len(doc.pages)
        /\ result.pages_extracted = result.page_count
        /\ MarkerNums(result.text) = [i \in 1..result.page_count |-> i]

C5_Witness ==
    /\ epc = "returned"
    /\ result.kind = "success"
    /\ NoPageFaults(doc) /\ NoEmptyPages(doc)
    /\ result.page_count = 3
    /\ result.pages_extracted = 3
    /\ doc.pages[2].text = <<NL>>

\* C6: in the page loop and in every Success, pages_extracted <= page_count,
\* and pages_extracted is the number of pages gone through so far that gave a
\* text block without faulting.
C6_ExtractedCount ==
    /\ epc = "pages" =>
          /\ extracted_pages <= num_pages
          /\ page_num <= num_pages
          /\ extracted_pages = Cardinality(GoodPages(doc, page_num))
    /\ (epc = "returned" /\ result.kind = "success") =>
          /\ result.pages_extracted <= result.page_count
          /\ result.pages_extracted = Cardinality(GoodPages(doc, Len(doc.pages)))

C6_Witness ==
    /\ epc = "pages"
    /\ page_num = 2
    /\ num_pages = 3
    /\ doc.pages[1].fault
    /\ GoodPage(doc.pages[2])
    /\ extracted_pages = 1

\* C7: the call ends with Success or with a Failure of the closed taxonomy,
\* never with a raised error; a missing file gives FILE_NOT_FOUND and a file
\* that may not be read gives PERMISSION_DENIED.
C7_ClosedTaxonomy ==
    /\ result.kind \in {"none", "success", "failure"}
    /\ epc = "returned" =>
          /\ result.kind \in {"success", "failure"}
          /\ result.kind = "failure" => result.error \in Taxonomy
          /\ doc.openFault = "FileNotFoundError" =>
                result = create_error_response("FILE_NOT_FOUND")
          /\ doc.openFault = "PermissionError" =>
                result = create_error_response("PERMISSION_DENIED")

C7_Witness ==
    /\ epc = "returned"
    /\ doc.openFault = "PermissionError"
    /\ result.kind = "failure"
    /\ result.error = "PERMISSION_DENIED"

\* C8: at most one handle is open at any time; once the call has returned, on
\* whichever path, none is open; a call whose open() fails never acquired one.
C8_HandleReleased ==
    /\ handles \in {0, 1}
    /\ acquired <= 1
    /\ epc \in {"idle", "open", "returned"} => handles = 0
    /\ epc \in {"reader", "encrypted", "info", "pages"} => handles = 1 /\ acquired = 1
    /\ (epc = "returned" /\ doc.openFault # "none") => acquired = 0
    /\ (epc = "returned" /\ doc.openFault = "none") => acquired = 1

C8_Witness ==
    /\ epc = "returned"
    /\ result.error = "UNEXPECTED_ERROR"
    /\ acquired = 1
    /\ handles = 0

----------------------------------------------------------------------------
(* Properties of "Process All Invoices", checked under BatchSpec and       *)
(* FairBatchSpec                                                           *)

\* the text extract_text_from_pdf returns for a document that reaches its pages
RECURSIVE LoopUpTo(_, _)
LoopUpTo(d, n) ==
    IF n = 0 THEN LoopState(FALSE, <<>>, 0)
    ELSE LET prev == LoopUpTo(d, n - 1)
         IN ExtractOnePage(n, d.pages[n], prev.text_content, prev.extracted_pages)

ExtractedText(d) == Strip(LoopUpTo(d, Len(d.pages)).text_content)

\* the records of the listed documents at the positions ps, in that order:
\* one for each whose text the engine turns into a record
RECURSIVE RecordsOf(_, _)
RecordsOf(fs, ps) ==
    IF ps = <<>> THEN <<>>
    ELSE LET file_info == fs[Head(ps)]
             parsed == parse_invoice_text(ExtractedText(file_info.doc))
         IN (IF parsed.raised THEN <<>> ELSE <<Record(file_info, parsed.data)>>)
                \o RecordsOf(fs, Tail(ps))

\* C1: a run never halts before the end of the listing: it is never aborted,
\* every document gone through has left exactly one outcome (a record or a
\* reported failure), whatever the documents before it did, and a run that
\* has started ends, having gone through every position of the listing, with
\* as many records and reported failures together as there are documents.
C1_BatchReachesEvery ==
    /\ [](/\ bpc # "aborted"
          /\ idx <= Len(files)
          /\ Len(all_data) + Len(reports) = idx)
    /\ (bpc = "running") ~>
          (/\ bpc = "done"
           /\ idx = Len(files)
           /\ Len(all_data) + Len(reports) = Len(files))

\* the first document fails in the engine (date fault), the second in the
\* extractor (encrypted), the third gives a record
C1_Witness ==
    /\ bpc = "done"
    /\ Len(files) = 3
    /\ files[1].doc = Readable(<<TextPage(InvoiceBadDate)>>)
    /\ files[2].doc.encrypted
    /\ reports = <<Report("error", files[1]), Report("warning", files[2])>>
    /\ Len(all_data) = 1
    /\ all_data[1].file_path = files[3].path

\* C2: the engine has run only on documents for which the extractor returned
\* Success, at most once each and in listing order; the records are exactly
\* those of the documents on which the engine ran without raising, in listing
\* order, each with the name and the path of its own document.
C2_RecordsOfSucceeded ==
    /\ Ascending(parsedFiles)
    /\ \A k \in 1..Len(parsedFiles) :
          /\ parsedFiles[k] \in 1..Len(files)
          /\ ReachesPages(files[parsedFiles[k]].doc)
    /\ all_data = RecordsOf(files, parsedFiles)
    /\ \A k \in 1..Len(all_data) :
          \E i \in 1..Len(files) :
              /\ all_data[k].file_path = files[i].path
              /\ all_data[k].filename = files[i].name
              /\ ReachesPages(files[i].doc)
              /\ all_data[k].fields = parse_invoice_text(ExtractedText(files[i].doc)).data

\* two documents of the same name at different paths give two records, the
\* third document fails in the engine
C2_Witness ==
    /\ bpc = "done"
    /\ parsedFiles = <<1, 2, 3>>
    /\ Len(all_data) = 2
    /\ all_data[1].filename = all_data[2].filename
    /\ all_data[1].file_path = files[1].path
    /\ all_data[2].file_path = files[2].path
    /\ all_data[1].fields # all_data[2].fields

----------------------------------------------------------------------------
(* Properties of parse_invoice_text, checked under FieldSpec and SectionSpec *)

\* the fields statement r assigns
RuleFields(r) ==
    IF Rules[r] = "period" THEN {"period_start", "period_end"}
    ELSE IF Rules[r] = "gas_rates" THEN {"gas_unit_rate", "gas_standing_charge"}
    ELSE {Rules[r]}

\* the pattern of field f matches in text t
FieldMatches(f, t) ==
    CASE f \in {"period_start", "period_end"} -> PeriodMatch(t) # 0
      [] f = "electricity_cost" -> LabelValue(t, "CostElec", "Gbp") # 0
      [] f = "gas_cost" -> LabelValue(t, "CostGas", "Gbp") # 0
      [] f = "vat" -> LabelSameLine(t, "VAT", {"Gbp", "PlusGbp"}) # 0
      [] f = "total_charges" -> LabelValue(t, "TotalCharges", "Gbp") # 0
      [] f = "direct_debit" -> LabelSameLine(t, "DirectDebit", {"PlusGbp"}) # 0
      [] f = "starting_balance" -> BalanceMatch(t, "StartBal") # 0
      [] f = "closing_balance" -> BalanceMatch(t, "CloseBal") # 0
      [] f = "electricity_kwh" -> LabelValue(t, "TotalUnits", "Kwh") # 0
      [] f = "gas_kwh" -> GasKwhMatch(t) # 0
      [] f = "electricity_unit_rate" -> LabelValue(t, "UnitRate", "PKwh") # 0
      [] f = "electricity_standing_charge" -> LabelValue(t, "Standing", "PDay") # 0
      [] f = "gas_unit_rate" ->
            /\ FirstAfter(t, 0, "GasDetail") # 0
            /\ LabelValue(GasSection(t), "UnitRate", "PKwh") # 0
      [] f = "gas_standing_charge" ->
            /\ FirstAfter(t, 0, "GasDetail") # 0
            /\ LabelValue(GasSection(t), "Standing", "PDay") # 0

\* C9: the rules are applied independently of each other: while the function
\* runs and when it has returned its record, every field whose statement has
\* been passed is set exactly if its own pattern matches the text, and the
\* returned record has passed every statement, whichever other patterns failed
\* to match.
C9_RulesIndependent ==
    /\ fpc \in {"running", "returned"} =>
          \A r \in 1..NumRules : \A f \in RuleFields(r) :
              IF r < rule THEN data[f].set <=> FieldMatches(f, text)
              ELSE ~data[f].set
    /\ fpc = "returned" => rule = NumRules + 1

\* a text without a Direct Debit clause: direct_debit absent, all others set
C9_Witness ==
    /\ fpc = "returned"
    /\ ~FieldMatches("direct_debit", text)
    /\ ~data["direct_debit"].set
    /\ \A f \in Fields \ {"direct_debit"} : FieldMatches(f, text) /\ data[f].set

GasFields == {"gas_kwh", "gas_unit_rate", "gas_standing_charge"}

\* first "Gas in detail", and the section anchor that follows it (or the end)
GasStart(t) == FirstAfter(t, 0, "GasDetail")
GasEnd(t) ==
    IF FirstAfter(t, GasStart(t), "Registered") # 0
    THEN FirstAfter(t, GasStart(t), "Registered")
    ELSE Len(t) + 1

\* the figure stored in field f stood inside the gas section of t
\* (under SectionSpec a figure's value is its position in the text)
FromGasSection(f, t, d) ==
    d[f].set => GasStart(t) # 0 /\ GasStart(t) < d[f].val /\ d[f].val < GasEnd(t)

\* C10: all three gas figures come from the stretch between the first "Gas in
\* detail" and the next section anchor (or the end of the text), and without
\* "Gas in detail" all three are absent.
C10_GasFiguresScoped ==
    fpc = "returned" =>
        /\ GasStart(text) = 0 => \A f \in GasFields : ~data[f].set
        /\ \A f \in GasFields : FromGasSection(f, text, data)

\* what the code keeps of it: the two gas rates come from the gas section, and
\* gas_kwh from behind the first "Gas in detail"
GasRatesScoped ==
    fpc = "returned" =>
        /\ GasStart(text) = 0 => \A f \in GasFields : ~data[f].set
        /\ FromGasSection("gas_unit_rate", text, data)
        /\ FromGasSection("gas_standing_charge", text, data)
        /\ data["gas_kwh"].set => GasStart(text) < data["gas_kwh"].val

GasRatesScoped_Witness ==
    /\ fpc = "returned"
    /\ Len(text) = 5
    /\ text[1].k = "UnitRate"
    /\ GasStart(text) = 3
    /\ data["gas_unit_rate"].set
    /\ data["electricity_unit_rate"].val = 2
    /\ data["gas_unit_rate"].val = 5

ElectricityFields == {"electricity_kwh", "electricity_unit_rate",
                      "electricity_standing_charge"}

\* position pos of t lies inside the gas section
InGasSection(t, pos) == GasStart(t) # 0 /\ GasStart(t) < pos /\ pos < GasEnd(t)

\* C11: an electricity figure never comes from the gas section: a returned
\* record's electricity_kwh, electricity_unit_rate and
\* electricity_standing_charge, when set, hold a figure that stood outside the
\* gas section, so that a text whose labels all lie inside the gas section
\* leaves the three absent.
C11_ElectricityScoped ==
    fpc = "returned" =>
        \A f \in ElectricityFields :
            data[f].set => ~InGasSection(text, data[f].val)

----------------------------------------------------------------------------
(* Properties of the closing date, checked under PeriodSpec *)

NotADate == [valid |-> FALSE, y |-> 0, m |-> 0, d |-> 0]
CalendarDate(y, m, d) == [valid |-> TRUE, y |-> y, m |-> m, d |-> d]

\* what each of DateStrings says, read as day, abbreviated month and year
\* once the ordinal suffix is off; NotADate when it has not that shape or
\* names no day of the calendar
Calendar == <<
    CalendarDate(2024, 10, 9),
    CalendarDate(2025, 1, 1),
    CalendarDate(2023, 2, 23),
    NotADate,
    NotADate,
    NotADate,
    CalendarDate(2024, 3, 22),
    NotADate,
    CalendarDate(2024, 2, 29),
    NotADate,
    CalendarDate(999, 9, 10) >>

\* YYYY/MM/DD
Pad4(n) == <<Digits[(n \div 1000) + 1], Digits[((n \div 100) % 10) + 1],
            Digits[((n \div 10) % 10) + 1], Digits[(n % 10) + 1]>>
Rendered(c) == Pad4(c.y) \o <<"/">> \o Pad2(c.m) \o <<"/">> \o Pad2(c.d)

\* the closing date of the leftmost match of the billing period pattern
ClosingDate(t) == t[NextNonSpace(t, NextNonSpace(t, PeriodMatch(t) + 1))].v

\* the record is returned with the closing date of the text as period_end, or
\* the function raises on a closing date that is none
ConvertedOrRaised(t, d) ==
    /\ fpc = "returned" =>
          /\ Calendar[ClosingDate(t)].valid
          /\ d["period_end"].set
          /\ d["period_end"].val = Rendered(Calendar[ClosingDate(t)])
    /\ fpc = "raised" => ~Calendar[ClosingDate(t)].valid

\* C12: whenever the billing period pattern matches, either the closing date
\* is a date of the day / abbreviated month / year shape and the returned
\* record's period_end is that date as YYYY/MM/DD, or the function raises; a
\* record with period_end absent or with another date is never returned.
C12_DateFailsLoudly ==
    (fpc \in {"returned", "raised"} /\ PeriodMatch(text) # 0) =>
        ConvertedOrRaised(text, data)

\* what the code keeps of it: the same for closing dates of the years from
\* 1000 on, which strftime renders with four digits
DateFailsLoudlyFrom1000 ==
    (/\ fpc \in {"returned", "raised"}
     /\ PeriodMatch(text) # 0
     /\ Calendar[ClosingDate(text)].valid => Calendar[ClosingDate(text)].y >= 1000) =>
        ConvertedOrRaised(text, data)

DateFailsLoudlyFrom1000_Witness ==
    /\ fpc = "returned"
    /\ PeriodMatch(text) # 0
    /\ DateStrings[ClosingDate(text)] = <<"2", "3", "r", "d", " ", "F", "e", "b", " ",
                                          "2", "0", "2", "3">>
    /\ data["period_end"].val = <<"2", "0", "2", "3", "/", "0", "2", "/", "2", "3">>

----------------------------------------------------------------------------
(* Properties of the balances, checked under BalanceSpec *)

\* field f holds the amount of the leftmost "<lbl> £X in debit|credit" of t,
\* as -X for a debit and as +X for a credit, and is absent without one
\* (under BalanceSpec an amount is its position in the text)
SignedAs(f, lbl, t, d) ==
    LET pos == BalanceMatch(t, lbl)
    IN IF pos = 0 THEN ~d[f].set
       ELSE /\ d[f].set
            /\ t[NextNonSpace(t, pos)].k = "InDebit" =>
                  d[f].val = 0 - t[pos].v /\ d[f].val <= 0
            /\ t[NextNonSpace(t, pos)].k = "InCredit" =>
                  d[f].val = t[pos].v /\ d[f].val >= 0

\* C13: in a returned record a balance written "£X in debit" is stored as -X
\* and one written "£X in credit" as +X, never positive for a debit nor
\* negative for a credit, the starting and the closing balance each by its
\* own clause.
C13_BalanceSign ==
    fpc = "returned" =>
        /\ SignedAs("starting_balance", "StartBal", text, data)
        /\ SignedAs("closing_balance", "CloseBal", text, data)

\* a starting balance in credit next to a closing balance in debit
C13_Witness ==
    /\ fpc = "returned"
    /\ text = Numbered(<<StartBal, Gbp(0), InCredit, NL, CloseBal, Gbp(0), InDebit>>)
    /\ data["starting_balance"].val = 2
    /\ data["closing_balance"].val = 0 - 6

----------------------------------------------------------------------------
(* Properties of the stored collection, checked under SessionSpec *)

\* the record list of the latest of the runs rs that yielded a record
RECURSIVE LastYield(_)
LastYield(rs) ==
    IF rs = <<>> THEN <<>>
    ELSE IF rs[Len(rs)] # <<>> THEN rs[Len(rs)]
    ELSE LastYield(SubSeq(rs, 1, Len(rs) - 1))

\* C14: at every moment of a session, whatever the scans and runs so far, the
\* stored collection invoice_data is the record list of the most recent
\* ended run that yielded at least one record (none: empty): a run without a
\* record leaves it as it was, and it is never a mix of two runs.
C14_StoredCollection == invoice_data = LastYield(runs)

\* a run with a record, then a run over another listing in which every
\* document failed: the collection is still that of the first run
C14_Witness ==
    /\ bpc = "done"
    /\ Len(runs) = 2
    /\ runs[1] # <<>>
    /\ runs[2] = <<>>
    /\ invoice_data = runs[1]
    /\ \A i \in DOMAIN files : files[i].path # invoice_data[1].file_path

====
